---- MODULE Spec2Model ----
(***************************************************************************)
(* Model of the cosmwasm-option contract (src/src/contract.rs).            *)
(*                                                                         *)
(* The contract keeps one State record in the storage item STATE and has   *)
(* four entry points that change it (instantiate, and through execute:     *)
(* transfer, finalize, burn) and one that reads it (query).  Every entry   *)
(* point is modelled as an operator from (storage, env, info, msg) to the  *)
(* Result the Rust function returns together with the storage it leaves,   *)
(* and as one action that applies the operator to the model's variables.   *)
(*                                                                         *)
(* Spec is the contract under its host: the host instantiates an instance *)
(* once and supplies a non-decreasing block height.  FairSpec is Spec with *)
(* burn invocations without funds weakly fair.  DirectSpec calls the entry *)
(* points directly, in any order, as the unit tests of contract.rs do;     *)
(* instantiate can then be called again.                                   *)
(***************************************************************************)
EXTENDS Integers, Sequences, FiniteSets, Bags

VARIABLES
    storage,       \* deps.storage: the items STATE and contract_info
    height,        \* env.block.height, the host's clock
    instantiated,  \* history: an instantiate call returned Ok
    created,       \* history: the State stored by the latest instantiate that returned Ok
    closed,        \* history: a finalize or a burn returned Ok
    received,      \* history: the funds attached to the latest instantiate that returned
                   \* Ok and to the finalize calls that returned Ok since
    sent,          \* history: the BankMsg::Send messages returned since that instantiate
    last           \* the latest invocation: its inputs, the STATE item it found
                   \* and what it returned

vars == <<storage, height, instantiated, created, closed, received, sent, last>>

----------------------------------------------------------------------------
(* Bounds and input sets *)

\* heights and expiry values range over 0..MaxHeight
MaxHeight == 2

Addrs == {"creator", "someone", "anyone"}

coin(amount, denom) == [denom |-> denom, amount |-> amount]

\* the Vec<Coin> values of the unit tests, coins(40, "ETH"), coins(39, "ETH")
\* and coins(1, "BTC"), and lists of two of these coins in both orders
ETH40 == <<coin(40, "ETH")>>

ETH39 == <<coin(39, "ETH")>>

BTC1 == <<coin(1, "BTC")>>

ETH40_BTC1 == <<coin(40, "ETH"), coin(1, "BTC")>>

BTC1_ETH40 == <<coin(1, "BTC"), coin(40, "ETH")>>

\* funds attached to instantiate (they become the collateral)
Collaterals == {BTC1}

\* counter offers asked by instantiate
Offers == {ETH40, ETH39, ETH40_BTC1}

\* funds attached to finalize: nothing, each offer, each offer under-paid,
\* over-paid, with a coin missing, with a coin added, and reordered
Payments == {<<>>, ETH40, ETH39, BTC1, ETH40_BTC1, BTC1_ETH40}

\* funds attached to transfer, which never reads them
TransferFunds == {<<>>, BTC1}

\* funds attached to burn, which only asks whether there are any
BurnFunds == {<<>>, ETH40, BTC1_ETH40}

Heights == 0..MaxHeight

----------------------------------------------------------------------------
(* Values *)

CONTRACT_NAME == "crates.io:cosmwasm-option"

CONTRACT_VERSION == "CARGO_PKG_VERSION"

NoAddr == "-"

\* the State struct built by instantiate
State(creator, owner, collateral, counter_offer, expires) ==
    [creator |-> creator, owner |-> owner, collateral |-> collateral,
     counter_offer |-> counter_offer, expires |-> expires]

BankMsg_Send(to_address, amount) == [to_address |-> to_address, amount |-> amount]

attr(key, value) == [key |-> key, value |-> value]

EmptyStorage == [STATE |-> <<>>, contract_info |-> <<>>]

\* Err(..): the function returns early; nothing was written to storage
Err(kind, st) ==
    [err |-> kind, storage |-> st, messages |-> <<>>, attributes |-> <<>>, data |-> <<>>]

\* Ok(Response) with the storage the function leaves
Ok(st, messages, attributes, data) ==
    [err |-> "Ok", storage |-> st, messages |-> messages, attributes |-> attributes,
     data |-> data]

----------------------------------------------------------------------------
(* Storage item STATE *)

STATE_exists(st) == st.STATE # <<>>

STATE_get(st) == st.STATE[1]

STATE_save(st, state) == [st EXCEPT !.STATE = <<state>>]

\* faulty variant of STATE_remove: the item is left in storage
STATE_remove_keeps(st) == st

STATE_remove(st) == [st EXCEPT !.STATE = <<>>]

set_contract_version(st, name, version) ==
    [st EXCEPT !.contract_info = <<[contract |-> name, version |-> version]>>]

----------------------------------------------------------------------------
(* instantiate *)

\* faulty variant of instantiate_expired: an expiry equal to the height is accepted
instantiate_expired_strict(msg, env) == msg.expires < env.height

\* line 21: msg.expires <= env.block.height
instantiate_expired(msg, env) == msg.expires <= env.height

\* lines 30-36: the State that instantiate stores
instantiate_state(info, msg) ==
    State(info.sender, info.sender, info.funds, msg.counter_offer, msg.expires)

\* faulty variant of instantiate: a stored record makes it fail
instantiate_once(st, env, info, msg) ==
    IF STATE_exists(st)
    THEN Err("Unauthorized", st)
    ELSE IF instantiate_expired(msg, env)
    THEN Err("Expired", st)
    ELSE Ok(STATE_save(set_contract_version(st, CONTRACT_NAME, CONTRACT_VERSION),
                       instantiate_state(info, msg)),
            <<>>, <<>>, <<>>)

\* faulty variant of instantiate: an instance that has its contract_info fails
instantiate_new_instance(st, env, info, msg) ==
    IF st.contract_info # <<>>
    THEN Err("Unauthorized", st)
    ELSE IF instantiate_expired(msg, env)
    THEN Err("Expired", st)
    ELSE Ok(STATE_save(set_contract_version(st, CONTRACT_NAME, CONTRACT_VERSION),
                       instantiate_state(info, msg)),
            <<>>, <<>>, <<>>)

instantiate(st, env, info, msg) ==
    IF instantiate_expired(msg, env)
    THEN Err("Expired", st)
    ELSE Ok(STATE_save(set_contract_version(st, CONTRACT_NAME, CONTRACT_VERSION),
                       instantiate_state(info, msg)),
            <<>>, <<>>, <<>>)

----------------------------------------------------------------------------
(* transfer *)

\* faulty variant of transfer_unauthorized: the creator, not the owner, may transfer
transfer_unauthorized_creator(info, state) == info.sender # state.creator

\* line 63: info.sender != state.owner
transfer_unauthorized(info, state) == info.sender # state.owner

\* faulty variant of transfer_update: the recipient also becomes the creator
transfer_update_creator(state, recipient) ==
    [state EXCEPT !.owner = recipient, !.creator = recipient]

\* line 66: state.owner = recipient
transfer_update(state, recipient) == [state EXCEPT !.owner = recipient]

\* lines 69-71
transfer_attributes(recipient) == <<attr("action", "transfer"), attr("owner", recipient)>>

\* faulty variant of transfer: the new owner is saved before the sender is checked
transfer_saves_before_check(st, env, info, recipient) ==
    IF ~STATE_exists(st)
    THEN Err("NotFound", st)
    ELSE IF transfer_unauthorized(info, STATE_get(st))
    THEN Err("Unauthorized", STATE_save(st, transfer_update(STATE_get(st), recipient)))
    ELSE Ok(STATE_save(st, transfer_update(STATE_get(st), recipient)),
            <<>>, transfer_attributes(recipient), <<>>)

\* faulty variant of transfer: an expired option can no longer change hands
transfer_before_expiry(st, env, info, recipient) ==
    IF ~STATE_exists(st)
    THEN Err("NotFound", st)
    ELSE IF transfer_unauthorized(info, STATE_get(st))
    THEN Err("Unauthorized", st)
    ELSE IF env.height >= STATE_get(st).expires
    THEN Err("Expired", st)
    ELSE Ok(STATE_save(st, transfer_update(STATE_get(st), recipient)),
            <<>>, transfer_attributes(recipient), <<>>)

\* STATE.update loads the item (NotFound when absent), runs the closure and
\* saves what the closure returns; an Err of the closure saves nothing
transfer(st, env, info, recipient) ==
    IF ~STATE_exists(st)
    THEN Err("NotFound", st)
    ELSE IF transfer_unauthorized(info, STATE_get(st))
    THEN Err("Unauthorized", st)
    ELSE Ok(STATE_save(st, transfer_update(STATE_get(st), recipient)),
            <<>>, transfer_attributes(recipient), <<>>)

----------------------------------------------------------------------------
(* finalize *)

\* faulty variant of finalize_unauthorized: the creator keeps the right to finalize
finalize_unauthorized_creator(info, state) ==
    info.sender # state.owner /\ info.sender # state.creator

\* line 77: info.sender != state.owner
finalize_unauthorized(info, state) == info.sender # state.owner

\* line 80: env.block.height >= state.expires
finalize_expired(env, state) == env.height >= state.expires

\* line 88: info.funds != state.counter_offer, the equality of Vec<Coin>:
\* same length and equal coins position by position
finalize_funds_mismatch(info, state) == info.funds # state.counter_offer

\* faulty variant of finalize_messages: the collateral goes to the creator
finalize_messages_to_creator(state) ==
    <<BankMsg_Send(state.creator, state.counter_offer),
      BankMsg_Send(state.creator, state.collateral)>>

\* lines 100-107: counter_offer to creator, then collateral to owner
finalize_messages(state) ==
    <<BankMsg_Send(state.creator, state.counter_offer),
      BankMsg_Send(state.owner, state.collateral)>>

\* faulty variant of finalize_attributes: the action is named after the function
finalize_attributes_named == <<attr("action", "finalize")>>

finalize_attributes == <<attr("action", "execute")>>

\* faulty variant of finalize: the expiry is checked before the sender
finalize_expiry_first(st, env, info) ==
    IF ~STATE_exists(st)
    THEN Err("NotFound", st)
    ELSE IF finalize_expired(env, STATE_get(st))
    THEN Err("Expired", st)
    ELSE IF finalize_unauthorized(info, STATE_get(st))
    THEN Err("Unauthorized", st)
    ELSE IF finalize_funds_mismatch(info, STATE_get(st))
    THEN Err("FundsMismatch", st)
    ELSE Ok(STATE_remove(st), finalize_messages(STATE_get(st)), finalize_attributes, <<>>)

finalize(st, env, info) ==
    IF ~STATE_exists(st)
    THEN Err("NotFound", st)
    ELSE IF finalize_unauthorized(info, STATE_get(st))
    THEN Err("Unauthorized", st)
    ELSE IF finalize_expired(env, STATE_get(st))
    THEN Err("Expired", st)
    ELSE IF finalize_funds_mismatch(info, STATE_get(st))
    THEN Err("FundsMismatch", st)
    ELSE Ok(STATE_remove(st), finalize_messages(STATE_get(st)), finalize_attributes, <<>>)

----------------------------------------------------------------------------
(* burn *)

\* faulty variant of burn_not_expired: at height = expires burn is still refused
burn_not_expired_inclusive(env, state) == state.expires >= env.height

\* line 114: state.expires > env.block.height
burn_not_expired(env, state) == state.expires > env.height

\* line 122: !info.funds.is_empty()
burn_funds_not_empty(info) == Len(info.funds) # 0

\* faulty variant of burn_messages: the collateral goes to the owner
burn_messages_to_owner(state) == <<BankMsg_Send(state.owner, state.collateral)>>

\* lines 131-134: collateral to creator
burn_messages(state) == <<BankMsg_Send(state.creator, state.collateral)>>

burn_attributes == <<attr("action", "burn")>>

\* faulty variant of burn: only the creator may burn
burn_creator_only(st, env, info) ==
    IF ~STATE_exists(st)
    THEN Err("NotFound", st)
    ELSE IF info.sender # STATE_get(st).creator
    THEN Err("Unauthorized", st)
    ELSE IF burn_not_expired(env, STATE_get(st))
    THEN Err("NotYetExpired", st)
    ELSE IF burn_funds_not_empty(info)
    THEN Err("FundsNotEmpty", st)
    ELSE Ok(STATE_remove(st), burn_messages(STATE_get(st)), burn_attributes, <<>>)

\* faulty variant of burn: the funds are checked before the expiry
burn_funds_first(st, env, info) ==
    IF ~STATE_exists(st)
    THEN Err("NotFound", st)
    ELSE IF burn_funds_not_empty(info)
    THEN Err("FundsNotEmpty", st)
    ELSE IF burn_not_expired(env, STATE_get(st))
    THEN Err("NotYetExpired", st)
    ELSE Ok(STATE_remove(st), burn_messages(STATE_get(st)), burn_attributes, <<>>)

burn(st, env, info) ==
    IF ~STATE_exists(st)
    THEN Err("NotFound", st)
    ELSE IF burn_not_expired(env, STATE_get(st))
    THEN Err("NotYetExpired", st)
    ELSE IF burn_funds_not_empty(info)
    THEN Err("FundsNotEmpty", st)
    ELSE Ok(STATE_remove(st), burn_messages(STATE_get(st)), burn_attributes, <<>>)

----------------------------------------------------------------------------
(* query *)

\* to_binary(&state): the fields in the order of the struct
to_binary(state) ==
    <<state.creator, state.owner, state.collateral, state.counter_offer, state.expires>>

\* from_binary, as the tests decode the answer of query
from_binary(bin) == State(bin[1], bin[2], bin[3], bin[4], bin[5])

query(st) ==
    IF ~STATE_exists(st)
    THEN Err("NotFound", st)
    ELSE Ok(st, <<>>, <<>>, <<to_binary(STATE_get(st))>>)

----------------------------------------------------------------------------
(* Actions: one invocation each.  last records the inputs and the outcome. *)

env == [height |-> height]

MessageInfo(sender, funds) == [sender |-> sender, funds |-> funds]

InstantiateMsg(counter_offer, expires) == [counter_offer |-> counter_offer, expires |-> expires]

\* before is the STATE item as the invocation finds it
Invocation(op, info, recipient, counter_offer, expires, res) ==
    [op |-> op, sender |-> info.sender, funds |-> info.funds, recipient |-> recipient,
     counter_offer |-> counter_offer, expires |-> expires,
     before |-> storage.STATE,
     err |-> res.err, messages |-> res.messages, attributes |-> res.attributes,
     data |-> res.data]

NoInvocation(op) ==
    [op |-> op, sender |-> NoAddr, funds |-> <<>>, recipient |-> NoAddr,
     counter_offer |-> <<>>, expires |-> 0, before |-> <<>>,
     err |-> "Ok", messages |-> <<>>, attributes |-> <<>>, data |-> <<>>]

Init ==
    /\ storage = EmptyStorage
    /\ height = 0
    /\ instantiated = FALSE
    /\ created = <<>>
    /\ closed = FALSE
    /\ received = <<>>
    /\ sent = <<>>
    /\ last = NoInvocation("none")

Instantiate(sender, funds, counter_offer, expires) ==
    LET info == MessageInfo(sender, funds)
        msg == InstantiateMsg(counter_offer, expires)
        res == instantiate(storage, env, info, msg)
    IN  /\ storage' = res.storage
        /\ last' = Invocation("instantiate", info, NoAddr, counter_offer, expires, res)
        /\ instantiated' = (instantiated \/ res.err = "Ok")
        /\ created' = IF res.err = "Ok" THEN res.storage.STATE ELSE created
        /\ received' = IF res.err = "Ok" THEN <<info.funds>> ELSE received
        /\ sent' = IF res.err = "Ok" THEN res.messages ELSE sent
        /\ UNCHANGED <<height, closed>>

\* entry point called directly: nothing in the code looks at what is stored
DirectInstantiate ==
    \E sender \in Addrs, funds \in Collaterals, counter_offer \in Offers,
       expires \in Heights :
        Instantiate(sender, funds, counter_offer, expires)

\* under the host an instance is instantiated once: a failed instantiate
\* creates no instance and may be tried again, a successful one is the last
HostInstantiate ==
    /\ ~instantiated
    /\ \E sender \in Addrs, funds \in Collaterals, counter_offer \in Offers,
          expires \in Heights :
           Instantiate(sender, funds, counter_offer, expires)

Transfer ==
    \E sender \in Addrs, funds \in TransferFunds, recipient \in Addrs :
        LET info == MessageInfo(sender, funds)
            res == transfer(storage, env, info, recipient)
        IN  /\ storage' = res.storage
            /\ last' = Invocation("transfer", info, recipient, <<>>, 0, res)
            /\ UNCHANGED <<height, instantiated, created, closed, received, sent>>

Finalize ==
    \E sender \in Addrs, funds \in Payments :
        LET info == MessageInfo(sender, funds)
            res == finalize(storage, env, info)
        IN  /\ storage' = res.storage
            /\ last' = Invocation("finalize", info, NoAddr, <<>>, 0, res)
            /\ closed' = (closed \/ res.err = "Ok")
            /\ received' = IF res.err = "Ok" THEN Append(received, info.funds) ELSE received
            /\ sent' = sent \o res.messages
            /\ UNCHANGED <<height, instantiated, created>>

BurnCall(sender, funds) ==
    LET info == MessageInfo(sender, funds)
        res == burn(storage, env, info)
    IN  /\ storage' = res.storage
        /\ last' = Invocation("burn", info, NoAddr, <<>>, 0, res)
        /\ closed' = (closed \/ res.err = "Ok")
        /\ sent' = sent \o res.messages
        /\ UNCHANGED <<height, instantiated, created, received>>

Burn == \E sender \in Addrs, funds \in BurnFunds : BurnCall(sender, funds)

\* a burn invocation that attaches no funds, by any caller
BurnNoFunds == \E sender \in Addrs : BurnCall(sender, <<>>)

Query ==
    LET res == query(storage)
    IN  /\ storage' = res.storage
        /\ last' = Invocation("query", MessageInfo(NoAddr, <<>>), NoAddr, <<>>, 0, res)
        /\ UNCHANGED <<height, instantiated, created, closed, received, sent>>

\* the chain produces the next block
AdvanceBlock ==
    /\ height < MaxHeight
    /\ height' = height + 1
    /\ last' = NoInvocation("block")
    /\ UNCHANGED <<storage, instantiated, created, closed, received, sent>>

Next ==
    \/ HostInstantiate
    \/ Transfer
    \/ Finalize
    \/ Burn
    \/ Query
    \/ AdvanceBlock

Spec == Init /\ [][Next]_vars

\* the contract under its host when somebody keeps calling burn without funds
FairSpec == Spec /\ WF_vars(BurnNoFunds)

DirectNext ==
    \/ DirectInstantiate
    \/ Transfer
    \/ Finalize
    \/ Burn
    \/ Query
    \/ AdvanceBlock

DirectSpec == Init /\ [][DirectNext]_vars

----------------------------------------------------------------------------
(* Properties *)

\* the State the latest invocation found
Before == last.before[1]

Count(list, c) == Cardinality({i \in DOMAIN list : list[i] = c})

Coins(list) == {list[i] : i \in DOMAIN list}

\* equality as multisets of coins: the same coins the same number of times,
\* in any order
SameMultiset(a, b) == \A c \in Coins(a) \cup Coins(b) : Count(a, c) = Count(b, c)

\* C1: whenever finalize succeeds, the caller was the owner the record had at
\* the call, the height was below expires and the funds matched counter_offer;
\* the record is then removed and exactly two transfers are issued,
\* counter_offer to creator and collateral to that owner.
C1_FinalizeSuccess ==
    (last.op = "finalize" /\ last.err = "Ok") =>
        /\ last.before # <<>>
        /\ last.sender = Before.owner
        /\ height < Before.expires
        /\ SameMultiset(last.funds, Before.counter_offer)
        /\ ~STATE_exists(storage)
        /\ last.messages = <<BankMsg_Send(Before.creator, Before.counter_offer),
                             BankMsg_Send(Before.owner, Before.collateral)>>

\* a finalize succeeded for an owner who is not the creator
C1_Witness ==
    /\ last.op = "finalize"
    /\ last.err = "Ok"
    /\ Before.owner # Before.creator
    /\ last.messages[2].to_address = last.sender

\* C2: for an active record, caller = owner and height < expires, finalize
\* succeeds for every list of funds equal to counter_offer as a multiset,
\* whatever the order, and fails with FundsMismatch for every other list.
C2_MultisetRule ==
    (/\ last.op = "finalize"
     /\ last.before # <<>>
     /\ last.sender = Before.owner
     /\ height < Before.expires)
    => IF SameMultiset(last.funds, Before.counter_offer)
       THEN last.err = "Ok"
       ELSE last.err = "FundsMismatch"

\* C3: for an active record, burn succeeds iff height >= expires and no funds
\* are attached, whoever calls; on success the record is removed and exactly
\* one transfer is issued, the collateral to creator.
C3_BurnRule ==
    (last.op = "burn" /\ last.before # <<>>) =>
        /\ (last.err = "Ok") <=> (height >= Before.expires /\ last.funds = <<>>)
        /\ (last.err = "Ok") =>
              /\ ~STATE_exists(storage)
              /\ last.messages = <<BankMsg_Send(Before.creator, Before.collateral)>>

\* a burn by an unrelated address succeeded after ownership left the creator
C3_Witness ==
    /\ last.op = "burn"
    /\ last.err = "Ok"
    /\ Before.owner # Before.creator
    /\ last.sender \notin {Before.owner, Before.creator}
    /\ last.messages[1].to_address = Before.creator

\* C4: every failing invocation leaves the storage, and so the record, as it
\* was before the call and issues no transfer.
C4_FailureChangesNothing ==
    [][last'.err # "Ok" => (storage' = storage /\ last'.messages = <<>>)]_vars

\* a transfer by a non-owner failed on an active record, which is still there
C4_Witness ==
    /\ last.op = "transfer"
    /\ last.err = "Unauthorized"
    /\ last.recipient # Before.owner
    /\ storage.STATE = last.before

\* what a reader decodes from the answer of a query made in the current state
Read == from_binary(query(storage).data[1])

\* C5: after a successful finalize or burn, every later read, transfer,
\* finalize and burn fails with NotFound, whoever calls at whatever height
\* with whatever funds, issues no transfer and stores no record.
C5_NotFoundAfterRemoval ==
    [][(closed /\ last'.op \in {"query", "transfer", "finalize", "burn"}) =>
           /\ last'.err = "NotFound"
           /\ last'.messages = <<>>
           /\ ~STATE_exists(storage')]_vars

\* after the removal the former owner finalizes again, before expiry and with
\* the exact counter offer, and gets NotFound
C5_Witness ==
    /\ closed
    /\ last.op = "finalize"
    /\ last.err = "NotFound"
    /\ last.funds = created[1].counter_offer
    /\ height < created[1].expires

\* C6: create with expires <= height fails with Expired and stores nothing;
\* create with expires > height succeeds, issues no transfer, and a read made
\* right after it returns creator = owner = caller, collateral = the funds
\* attached, and the counter_offer and expires of the request.
C6_CreateRule ==
    (last.op = "instantiate") =>
        IF last.expires <= height
        THEN /\ last.err = "Expired"
             /\ storage = EmptyStorage
        ELSE /\ last.err = "Ok"
             /\ last.messages = <<>>
             /\ query(storage).err = "Ok"
             /\ Read = State(last.sender, last.sender, last.funds, last.counter_offer,
                             last.expires)

\* a create at a height above 0 with the smallest expiry that is accepted
C6_Witness ==
    /\ last.op = "instantiate"
    /\ last.err = "Ok"
    /\ height > 0
    /\ last.expires = height + 1
    /\ Read.owner = last.sender

\* C7: for an active record a transfer by anyone but the owner fails with
\* Unauthorized and a transfer by the owner succeeds for every recipient,
\* after which a read shows the recipient as owner; no transfer invocation
\* issues an outgoing fund transfer.
C7_TransferRule ==
    (last.op = "transfer") =>
        /\ last.messages = <<>>
        /\ (last.before # <<>>) =>
              IF last.sender # Before.owner
              THEN last.err = "Unauthorized"
              ELSE /\ last.err = "Ok"
                   /\ query(storage).err = "Ok"
                   /\ Read.owner = last.recipient

\* an owner who is not the creator transferred the option to a third address
C7_Witness ==
    /\ last.op = "transfer"
    /\ last.err = "Ok"
    /\ Before.owner # Before.creator
    /\ last.recipient \notin {Before.owner, Before.creator}
    /\ Read.owner = last.recipient

\* C8: finalize checks authorization, then expiry, then the funds: a
\* non-owner gets Unauthorized also when the option is expired or the funds
\* are wrong, the owner at height >= expires gets Expired also when the funds
\* are wrong, and FundsMismatch is returned only to the owner before expiry.
C8_FinalizeOrder ==
    (last.op = "finalize" /\ last.before # <<>>) =>
        /\ (last.sender # Before.owner) => last.err = "Unauthorized"
        /\ (last.sender = Before.owner /\ height >= Before.expires) => last.err = "Expired"
        /\ (last.err = "FundsMismatch") =>
              (last.sender = Before.owner /\ height < Before.expires)

\* a non-owner finalizes an expired option with the wrong funds
C8_Witness ==
    /\ last.op = "finalize"
    /\ last.err = "Unauthorized"
    /\ height >= Before.expires
    /\ last.funds # Before.counter_offer

\* C9: while the record exists its creator, collateral, counter_offer and
\* expires are those the create call stored, and a step that finds a record
\* and leaves a different one is a successful transfer that changed the owner
\* alone.
C9_OnlyOwnerChanges ==
    /\ [](STATE_exists(storage) =>
            /\ created # <<>>
            /\ STATE_get(storage).creator = created[1].creator
            /\ STATE_get(storage).collateral = created[1].collateral
            /\ STATE_get(storage).counter_offer = created[1].counter_offer
            /\ STATE_get(storage).expires = created[1].expires)
    /\ [][(STATE_exists(storage) /\ STATE_exists(storage')
           /\ storage'.STATE # storage.STATE) =>
              /\ last'.op = "transfer"
              /\ last'.err = "Ok"
              /\ storage'.STATE = <<[STATE_get(storage) EXCEPT !.owner = last'.recipient]>>]_vars

\* after a change of owner and a failed finalize the record still has the
\* values of the create call
C9_Witness ==
    /\ STATE_exists(storage)
    /\ last.op = "finalize"
    /\ last.err = "FundsMismatch"
    /\ STATE_get(storage).owner # created[1].owner
    /\ [STATE_get(storage) EXCEPT !.owner = created[1].owner] = created[1]

\* C10 as claimed: a create invoked while a record is active does not succeed
\* and leaves the record as it was.
C10_CreateOnlyWhenNonExistent ==
    (last.op = "instantiate" /\ last.before # <<>>) =>
        /\ last.err # "Ok"
        /\ storage.STATE = last.before

\* C10 as amended: create does not look at the stored record.  Invoked while
\* a record is active it succeeds iff expires > height and then replaces the
\* five fields by the values of the new call; when it fails the record is as
\* it was.
C10_CreateIgnoresRecord ==
    (last.op = "instantiate" /\ last.before # <<>>) =>
        /\ (last.err = "Ok") <=> (last.expires > height)
        /\ (last.err = "Ok") =>
              storage.STATE = <<State(last.sender, last.sender, last.funds,
                                      last.counter_offer, last.expires)>>
        /\ (last.err # "Ok") => storage.STATE = last.before

\* a create by another address replaced a record whose owner was not its creator
C10_Witness ==
    /\ last.op = "instantiate"
    /\ last.err = "Ok"
    /\ last.before # <<>>
    /\ Before.owner # Before.creator
    /\ last.sender \notin {Before.owner, Before.creator}
    /\ STATE_get(storage).creator = last.sender

\* under the host no create finds a record: an instance is instantiated once
HostCreatesOnce == (last.op = "instantiate") => (last.before = <<>>)

\* C11 as claimed: once a finalize or a burn has removed the record, no
\* record exists in any later state, whatever follows, create included.
C11_RemovedForGood == closed => ~STATE_exists(storage)

\* C11 as amended: after a removal the record stays absent through every
\* read, transfer, finalize and burn; the one step that stores a record again
\* is a create with expires > height, which the code accepts as it does on a
\* new instance.
C11_AbsentUntilCreate ==
    [][(closed /\ ~STATE_exists(storage)) =>
           (STATE_exists(storage') <=>
               (last'.op = "instantiate" /\ last'.expires > height))]_vars

\* a create stored a record after a finalize or burn had removed one
C11_Witness ==
    /\ closed
    /\ last.op = "instantiate"
    /\ last.err = "Ok"
    /\ last.before = <<>>
    /\ STATE_exists(storage)

\* the addresses that pass the authorization check of transfer in this state
TransferAuthorized ==
    {a \in Addrs : \A f \in TransferFunds, r \in Addrs :
        transfer(storage, env, MessageInfo(a, f), r).err # "Unauthorized"}

\* the addresses that pass the authorization check of finalize in this state
FinalizeAuthorized ==
    {a \in Addrs : \A f \in Payments :
        finalize(storage, env, MessageInfo(a, f)).err # "Unauthorized"}

\* C12: while a record exists exactly one address, its current owner, passes
\* the authorization check of transfer and of finalize; every transfer and
\* finalize by another address, a previous owner and the creator included,
\* fails with Unauthorized, and a previous owner is unauthorized right after
\* the transfer that replaced it.
C12_OnlyCurrentOwner ==
    /\ STATE_exists(storage) =>
          /\ TransferAuthorized = {STATE_get(storage).owner}
          /\ FinalizeAuthorized = {STATE_get(storage).owner}
    /\ (last.op \in {"transfer", "finalize"} /\ last.before # <<>>) =>
          ((last.err = "Unauthorized") <=> (last.sender # Before.owner))
    /\ (last.op = "transfer" /\ last.err = "Ok" /\ last.recipient # Before.owner) =>
          /\ Before.owner \notin TransferAuthorized
          /\ Before.owner \notin FinalizeAuthorized

\* the creator, no longer owner, finalizes before expiry with exactly the
\* counter offer and is refused
C12_Witness ==
    /\ last.op = "finalize"
    /\ last.err = "Unauthorized"
    /\ last.sender = Before.creator
    /\ Before.owner # Before.creator
    /\ last.funds = Before.counter_offer
    /\ height < Before.expires

\* finalize's expiry check passes at height h for the stored record
FinalizeWindow(h) == ~finalize_expired([height |-> h], STATE_get(storage))

\* burn's expiry check passes at height h for the stored record
BurnWindow(h) == ~burn_not_expired([height |-> h], STATE_get(storage))

\* C13: under a non-decreasing height the exercise window and the refund
\* window of a record neither overlap nor leave a gap: at every height
\* exactly one of the two expiry checks passes; at height = expires the owner's
\* finalize with the exact funds fails with Expired and a burn without funds
\* succeeds; once a height >= expires is reached it stays so and no finalize
\* succeeds any more, and no burn succeeds before that.
C13_Windows ==
    /\ [](/\ STATE_exists(storage) =>
               \A h \in Heights : FinalizeWindow(h) <=> ~BurnWindow(h)
          /\ (/\ last.op = "finalize"
              /\ last.before # <<>>
              /\ last.sender = Before.owner
              /\ last.funds = Before.counter_offer
              /\ height = Before.expires) => last.err = "Expired"
          /\ (/\ last.op = "burn"
              /\ last.before # <<>>
              /\ last.funds = <<>>
              /\ height = Before.expires) => last.err = "Ok")
    /\ [][/\ (created # <<>> /\ height >= created[1].expires) =>
                /\ height' >= created'[1].expires
                /\ ~(last'.op = "finalize" /\ last'.err = "Ok")
          /\ (last'.op = "burn" /\ last'.err = "Ok") =>
                (created # <<>> /\ height >= created[1].expires)]_vars

\* at height = expires the owner's finalize with the exact funds was refused
\* as expired, at the height at which burn is first allowed
C13_Witness ==
    /\ last.op = "finalize"
    /\ last.err = "Expired"
    /\ last.sender = Before.owner
    /\ last.funds = Before.counter_offer
    /\ height = Before.expires
    /\ BurnWindow(height)
    /\ ~BurnWindow(height - 1)

RECURSIVE Flat(_)
\* the coins of a sequence of coin lists, in one list
Flat(lists) == IF lists = <<>> THEN <<>> ELSE Head(lists) \o Flat(Tail(lists))

\* the coins sent out so far
SentCoins == Flat([i \in DOMAIN sent |-> sent[i].amount])

\* the coins received by the successful create and finalize calls
ReceivedCoins == Flat(received)

\* C14: the collateral is sent out at most once, to one recipient (the owner
\* by finalize or the creator by burn, never both), the counter_offer at most
\* once and only by the finalize that received it; so the coins sent out are
\* always among the coins received by the successful create and finalize
\* calls, and are exactly those once the record is removed.
C14_PaidOutOnce ==
    /\ (created = <<>>) => (sent = <<>> /\ received = <<>>)
    /\ (created # <<>>) =>
          /\ \A c \in Coins(SentCoins) \cup Coins(ReceivedCoins) :
                Count(SentCoins, c) <= Count(ReceivedCoins, c)
          /\ STATE_exists(storage) => (sent = <<>> /\ received = <<created[1].collateral>>)
          /\ ~STATE_exists(storage) =>
                /\ closed
                /\ SameMultiset(SentCoins, ReceivedCoins)
                /\ \/ /\ received = <<created[1].collateral>>
                      /\ sent = <<BankMsg_Send(created[1].creator, created[1].collateral)>>
                   \/ /\ received = <<created[1].collateral, created[1].counter_offer>>
                      /\ \E o \in Addrs :
                            sent = <<BankMsg_Send(created[1].creator,
                                                  created[1].counter_offer),
                                     BankMsg_Send(o, created[1].collateral)>>

\* an owner other than the creator exercised the option, and later calls of
\* finalize and burn sent nothing more
C14_Witness ==
    /\ closed
    /\ Len(sent) = 2
    /\ sent[2].to_address # sent[1].to_address
    /\ received = <<created[1].collateral, created[1].counter_offer>>
    /\ last.op = "burn"
    /\ last.err = "NotFound"
    /\ last.funds = <<>>
    /\ height >= created[1].expires

\* a record is stored and its expiry has been reached
Refundable == STATE_exists(storage) /\ height >= STATE_get(storage).expires

\* the record is gone and its collateral is among the payments sent
PaidOut ==
    /\ ~STATE_exists(storage)
    /\ \E i \in DOMAIN sent : sent[i].amount = created[1].collateral

\* C15: the collateral is never locked: whenever a record is stored and
\* height >= expires, a burn without funds succeeds for every caller, whoever
\* the owner is; and if burns without funds keep being invoked, a record whose
\* expiry has been reached is eventually removed and its collateral paid out.
C15_NeverLocked ==
    /\ [](Refundable =>
            \A a \in Addrs : burn(storage, env, MessageInfo(a, <<>>)).err = "Ok")
    /\ (Refundable ~> PaidOut)

\* after expiry an address that is neither owner nor creator burned an option
\* whose owner was not the creator, and the collateral was paid out
C15_Witness ==
    /\ PaidOut
    /\ last.op = "burn"
    /\ last.err = "Ok"
    /\ height > Before.expires
    /\ Before.owner # Before.creator
    /\ last.sender \notin {Before.owner, Before.creator}

\* C16: transfer does not look at the block height: on an active record a
\* transfer by the owner succeeds at every height, also at height >= expires,
\* and whoever is the owner after it can transfer again.
C16_TransferAtAnyHeight ==
    /\ (last.op = "transfer" /\ last.before # <<>> /\ last.sender = Before.owner) =>
          /\ last.err = "Ok"
          /\ STATE_get(storage).owner = last.recipient
    /\ STATE_exists(storage) =>
          \A h \in Heights, x \in Addrs :
              LET res == transfer(storage, [height |-> h],
                                  MessageInfo(STATE_get(storage).owner, <<>>), x)
              IN  /\ res.err = "Ok"
                  /\ STATE_get(res.storage).owner = x

\* after expiry an owner who got the option by a transfer passed it on
C16_Witness ==
    /\ last.op = "transfer"
    /\ last.err = "Ok"
    /\ height >= Before.expires
    /\ Before.owner # Before.creator
    /\ last.recipient # Before.owner
    /\ STATE_get(storage).owner = last.recipient

\* C17: burn checks the expiry before the funds and never the caller: before
\* expiry it fails with NotYetExpired with or without funds, FundsNotEmpty is
\* returned only at height >= expires with funds attached, and a burn on an
\* active record never fails with Unauthorized.
C17_BurnOrder ==
    (last.op = "burn" /\ last.before # <<>>) =>
        /\ (height < Before.expires) => last.err = "NotYetExpired"
        /\ (last.err = "FundsNotEmpty") <=>
              (height >= Before.expires /\ last.funds # <<>>)
        /\ last.err # "Unauthorized"

\* before expiry a burn with funds attached is refused as not yet expired
C17_Witness ==
    /\ last.op = "burn"
    /\ last.err = "NotYetExpired"
    /\ last.before # <<>>
    /\ last.funds # <<>>
    /\ last.sender \notin {Before.owner, Before.creator}

\* C18: what each successful operation returns: create no attributes and no
\* transfers; transfer the attributes action=transfer and owner=<new owner>
\* and no transfers; finalize the one attribute action=execute and two
\* transfers; burn the one attribute action=burn and one transfer.
C18_Outputs ==
    (last.err = "Ok") =>
        /\ (last.op = "instantiate") =>
              (last.attributes = <<>> /\ last.messages = <<>>)
        /\ (last.op = "transfer") =>
              /\ last.attributes = <<attr("action", "transfer"),
                                     attr("owner", last.recipient)>>
              /\ last.messages = <<>>
        /\ (last.op = "finalize") =>
              /\ last.attributes = <<attr("action", "execute")>>
              /\ Len(last.messages) = 2
        /\ (last.op = "burn") =>
              /\ last.attributes = <<attr("action", "burn")>>
              /\ Len(last.messages) = 1

\* a finalize returned its two transfers and its attribute
C18_Witness ==
    /\ last.op = "finalize"
    /\ last.err = "Ok"
    /\ Len(last.attributes) = 1
    /\ last.attributes[1].value = "execute"
    /\ last.messages[1].amount = Before.counter_offer
    /\ last.messages[2].amount = Before.collateral

====
